---- MODULE Spec2Model ----
(***************************************************************************)
(* Model of the isometric floor demo (poc-pixijs).                         *)
(*                                                                         *)
(*   FloorLab  (src/src/components/FloorLab.tsx)  configurable floor: the  *)
(*             asset load effect with its sheet slicer, the grid           *)
(*             enumerator and the direct-form projection isoPosition.      *)
(*             BlocksFloor, in the same file: a fixed floor of blocks with *)
(*             its asset load effect.                                      *)
(*   FloorOnly (src/src/components/FloorOnly.tsx)  a fixed floor of flat   *)
(*             tiles with its asset load effect.                           *)
(*   GameRoom  (src/src/app/game/page.tsx)  16x16 grass plane: the asset   *)
(*             load effect, one GrassBlock per grid cell with its own      *)
(*             animation accumulator, the scaled-axis projection           *)
(*             screenToIsometric.                                          *)
(*                                                                         *)
(* Numbers.  JavaScript numbers are doubles.  Pixel sizes and grid         *)
(* coordinates are modelled as integers; projected screen coordinates are  *)
(* kept in QUARTER pixels (the value times 4), which represents x/2 and    *)
(* 0.25*x exactly, as a double does for integers of this size.  The        *)
(* animation accumulator is kept in TENTHS (timeRef.current times 10).     *)
(* FloorLab's frame index is kept in HALVES (the value times 2), so that   *)
(* a fraction typed into its number box is a value of the model.           *)
(***************************************************************************)
EXTENDS Integers, Sequences, FiniteSets, TLC

VARIABLES
  \* ---- FloorLab component state (FloorLab.tsx 67-88)
  mode,        \* useState<Mode>        "sheet" | "tile" | "cuboid"
  imagePath,   \* useState              image path string
  frameSize,   \* useState              slicing grain, px
  frameIndex,  \* useState              frame index, in halves (the value times 2)
  textures,    \* useState<Texture[]>   sequence of frames
  sheetInfo,   \* useState              <<>> (null) or <<[cols, rows, width, height]>>
  error,       \* useState              <<>> (null) or <<[path, kind]>>
  loads,       \* the load effect's async closures still awaiting Assets.load
  \* ---- GameRoom / GamePage state (page.tsx 7, 81-83, 111-112)
  animate,     \* GamePage useState(true): the animate flag
  grass,       \* GameRoom: "loading" | "ready" | "failed" (textures / error),
               \* "cancelled" | "unmounted" once the page is left
  animateRef,  \* per GrassBlock: animateRef.current
  timeRef,     \* per GrassBlock: timeRef.current, in tenths
  elevation,   \* per GrassBlock: elevation state, in thousandths of a pixel
  effectDue,   \* the [animate] effects of the last commit have not run yet
  \* ---- FloorOnly (FloorOnly.tsx 16-17) and BlocksFloor (FloorLab.tsx 573-575)
  floorOnly,   \* [mounted, texture, error] and its load closure [inFlight, cancelled]
  blocksFloor, \* [mounted, blockTex, shadowTex, error] and its closure [stage, cancelled]
  \* ---- the last call of a pure function (projection, grid enumerator)
  call

labVars  == <<mode, imagePath, frameSize, frameIndex, textures, sheetInfo, error, loads>>
roomVars == <<animate, grass, animateRef, timeRef, elevation, effectDue>>
floorVars == <<floorOnly, blocksFloor>>
vars     == <<labVars, roomVars, floorVars, call>>

Null == <<>>
Some(v) == <<v>>

(***************************************************************************)
(* Bounds of the model.                                                    *)
(***************************************************************************)
\* images of every size up to MaxDim x MaxDim are loaded (plus the 180 px sheets)
MaxDim == 2
\* frame sizes 1..MaxFrame are typed in (plus the default 18)
MaxFrame == 1
\* at most MaxLoads load closures are in flight at once
MaxLoads == 2
\* the whole frame indexes -1..MaxIndex are typed in (plus the fraction 0.5)
MaxIndex == 1
\* grid coordinates 0..MaxCoord are projected (plus 15, the last of GameRoom)
MaxCoord == 3
\* tile widths and heights -MaxTile..MaxTile are projected (plus 36, 64, 72, 128)
MaxTile == 4
\* display scales 1..MaxScale are used (the default 4 is among them when MaxScale >= 4)
MaxScale == 4
\* grids of 0..MaxGrid rows and columns are enumerated (plus 16)
MaxGrid == 4
\* sheets that slice into at most MaxFrames frames are followed
MaxFrames == 100
\* a GrassBlock's accumulator is followed up to MaxTicks steps
MaxTicks == 20

(***************************************************************************)
(* Fixed-point pixels: a length of n pixels is the integer 4 * n.          *)
(***************************************************************************)
Fx(n) == 4 * n

\* v / 2 and 0.5 * v (exact: the values halved are even)
Half(v) == v \div 2

Max(a, b) == IF a >= b THEN a ELSE b

(***************************************************************************)
(* FloorLab: inputs.                                                       *)
(***************************************************************************)
sheetPath  == "/assets/sprites/structural_blocks.png"
tilePath   == "/assets/room/floor-128.png"
cuboidPath == "/assets/room/new-floor-block.png"

Modes == {"sheet", "tile", "cuboid"}

\* what the user types into the image path box
TypedPaths == {"/typed.png"}

DefaultFrameSize == 18

DefaultSheetScale == 4

DefaultTileWidth == 128

DefaultTileHeight == 64

DefaultRows == 6

DefaultCols == 8

\* frame sizes typed into the "Frame size (px)" box: positive integers
FrameSizes == (1..MaxFrame) \cup {DefaultFrameSize}

\* pixel sizes of the images Assets.load can yield: every small size, the
\* 180x180 sheet of the sprites README and a 180x100 sheet
ImageSizes == ((1..MaxDim) \X (1..MaxDim)) \cup {<<180, 180>>, <<180, 100>>}

\* what Assets.load can do: reject, or resolve to a texture of some size
LoadOutcomes == {<<"rejected">>} \cup {<<"image", d[1], d[2]>> : d \in ImageSizes}

\* numbers typed into the "Frame index" box, in halves: Number(value) || 0
\* keeps negative numbers and fractions
FrameIndexes == {2 * i : i \in (-1)..MaxIndex} \cup {1}

(***************************************************************************)
(* FloorLab: the sheet slicer (inside the load effect).                    *)
(***************************************************************************)
\* new Rectangle(x, y, w, h) wrapped in a Texture on the sheet's source
FrameTexture(src, x, y, w, h) == [source |-> src, x |-> x, y |-> y, w |-> w, h |-> h]

\* const cols = Math.floor(base.width / frameSize)
SheetCols(width, fs) == width \div fs

\* mutant of SheetRows: rounds up, so the last row may be a partial frame
SheetRowsCeil(height, fs) == (height + fs - 1) \div fs

\* const rows = Math.floor(base.height / frameSize)
SheetRows(height, fs) == height \div fs

\* if (!cols || !rows) throw new Error("... does not evenly divide sheet ...")
SliceThrows(width, height, fs) ==
  SheetCols(width, fs) = 0 \/ SheetRows(height, fs) = 0

\* the inner loop, for (let x = 0; x < cols; x++) list.push(...): the
\* frames it pushes for row y, in push order (the k-th push has x = k - 1)
SliceColumns(src, y, ncols, fs) ==
  [k \in 1..ncols |-> FrameTexture(src, (k - 1) * fs, y * fs, fs, fs)]

\* the outer loop, for (let y = 0; y < rows; y++): the frames pushed from
\* row y on
RECURSIVE SliceRowsFrom(_, _, _, _, _)
SliceRowsFrom(src, y, nrows, ncols, fs) ==
  IF y < nrows
    THEN SliceColumns(src, y, ncols, fs) \o SliceRowsFrom(src, y + 1, nrows, ncols, fs)
    ELSE <<>>

\* the list of frame textures the sheet branch builds
SliceSheet(src, width, height, fs) ==
  SliceRowsFrom(src, 0, SheetRows(height, fs), SheetCols(width, fs), fs)

\* JavaScript's remainder a % b for b > 0: the sign follows the dividend
JsRem(a, b) == IF a >= 0 THEN a % b ELSE -((-a) % b)

(***************************************************************************)
(* FloorLab: the projection and the grid.                                  *)
(***************************************************************************)
\* mutant of isoPosition: x from the sum of the coordinates
isoPositionSumX(col, row, tw, th) ==
  <<(col + row) * Half(tw), (col + row) * Half(th)>>

\* mutant of isoPosition: the whole tile width per column step
isoPositionFullWidth(col, row, tw, th) ==
  <<(col - row) * tw, (col + row) * Half(th)>>

\* isoPosition(col, row, tileWidth, tileHeight), lengths in fixed point:
\* [(col - row) * (tileWidth / 2), (col + row) * (tileHeight / 2)]
isoPosition(col, row, tw, th) ==
  <<(col - row) * Half(tw), (col + row) * Half(th)>>

\* const tileWidthPx = mode === "sheet" ? frameSize * sheetScale : Math.max(1, tileWidth)
tileWidthPx(m, fs, scale, tw) ==
  IF m = "sheet" THEN Fx(fs * scale) ELSE Fx(Max(1, tw))

\* const tileHeightPx = mode === "sheet" ? (frameSize * sheetScale) / 2 : Math.max(1, tileHeight)
tileHeightPx(m, fs, scale, th) ==
  IF m = "sheet" THEN Half(Fx(fs * scale)) ELSE Fx(Max(1, th))

\* the inner loop, for (let c = 0; c < cols; c++) coords.push({ row: r, col: c }):
\* the cells it pushes for row r, in push order (the k-th push has c = k - 1)
LabGridColumns(r, ncols) == [k \in 1..ncols |-> [row |-> r, col |-> k - 1]]

\* mutant of LabGridRowsFrom: the loop test is r <= rows
RECURSIVE LabGridRowsFromInclusive(_, _, _)
LabGridRowsFromInclusive(r, nrows, ncols) ==
  IF r <= nrows
    THEN LabGridColumns(r, ncols) \o LabGridRowsFromInclusive(r + 1, nrows, ncols)
    ELSE <<>>

\* the outer loop, for (let r = 0; r < rows; r++): the cells pushed from row r on
RECURSIVE LabGridRowsFrom(_, _, _)
LabGridRowsFrom(r, nrows, ncols) ==
  IF r < nrows
    THEN LabGridColumns(r, ncols) \o LabGridRowsFrom(r + 1, nrows, ncols)
    ELSE <<>>

\* const grid = useMemo(..., [rows, cols])
LabGrid(nrows, ncols) == LabGridRowsFrom(0, nrows, ncols)

Min(a, b) == IF a <= b THEN a ELSE b

\* const index = Math.max(0, Math.min(frameIndex, textures.length - 1)),
\* in halves like frameIndex
ActiveIndex(fi, n) == Max(0, Min(fi, 2 * (n - 1)))

\* const activeTexture = useMemo(..., [textures, frameIndex, mode]): null
\* without textures, textures[index] in sheet mode, textures[0] otherwise.
\* textures[i] of the code is texs[i + 1] here; textures[index] is undefined
\* for an index that is not a whole number, and undefined is as falsy as
\* null where the render tests "activeTexture ?"
activeTexture(m, texs, fi) ==
  IF Len(texs) = 0
    THEN Null
    ELSE IF m = "sheet"
      THEN LET index == ActiveIndex(fi, Len(texs)) IN
           IF index % 2 = 0 /\ (index \div 2) + 1 \in 1..Len(texs)
             THEN Some(texs[(index \div 2) + 1])
             ELSE Null
      ELSE Some(texs[1])

\* the render: nothing without an active texture, else one pixiSprite per
\* cell of the grid, at isoPosition(col, row, tileWidthPx, tileHeightPx)
\* from the centre, showing the active texture
LabSprites(active, cells, tw, th) ==
  IF active = Null
    THEN <<>>
    ELSE [k \in 1..Len(cells) |->
            [row |-> cells[k].row, col |-> cells[k].col, texture |-> active[1],
             at |-> isoPosition(cells[k].col, cells[k].row, tw, th)]]

\* what FloorLab draws for a mode, a frame size, a frame index and a
\* texture list: the sprites of its grid, the other settings (display scale,
\* tile width and height, rows, columns) being at their useState values
LabDrawn(m, fs, fi, texs) ==
  LabSprites(activeTexture(m, texs, fi),
             LabGrid(DefaultRows, DefaultCols),
             tileWidthPx(m, fs, DefaultSheetScale, DefaultTileWidth),
             tileHeightPx(m, fs, DefaultSheetScale, DefaultTileHeight))

(***************************************************************************)
(* FloorLab: the load effect, useEffect(..., [imagePath, frameSize, mode]) *)
(***************************************************************************)
\* mutant of CancelAll: the cleanup leaves the flags alone
CancelNone(ls) == ls

\* the cleanup of the previous run: cancelled = true in its closure
CancelAll(ls) == [i \in 1..Len(ls) |-> [ls[i] EXCEPT !.cancelled = TRUE]]

\* mutant of LoadEffect: the run forgets setTextures([]) and setSheetInfo(null)
LoadEffectKeepsFrames(m, p, fs) ==
  /\ Len(loads) < MaxLoads
  /\ error' = Null
  /\ UNCHANGED <<textures, sheetInfo>>
  /\ loads' = Append(CancelAll(loads),
                     [mode |-> m, imagePath |-> p, frameSize |-> fs, cancelled |-> FALSE])

\* one run of the effect: cleanup, the three resets, a new async closure
LoadEffect(m, p, fs) ==
  /\ Len(loads) < MaxLoads
  /\ error' = Null
  /\ textures' = <<>>
  /\ sheetInfo' = Null
  /\ loads' = Append(CancelAll(loads),
                     [mode |-> m, imagePath |-> p, frameSize |-> fs, cancelled |-> FALSE])

\* mutant of Rerender: the effect runs after every render
RerenderAlways(m, p, fs) == LoadEffect(m, p, fs)

\* a render whose dependency list may or may not have changed
Rerender(m, p, fs) ==
  IF <<m, p, fs>> # <<mode, imagePath, frameSize>>
    THEN LoadEffect(m, p, fs)
    ELSE UNCHANGED <<error, textures, sheetInfo, loads>>

\* the "reset defaults when switching modes" effect, run after a mode change
ModeEffectPath(m, p) ==
  CASE m = "sheet" -> (IF p = "" THEN sheetPath ELSE p)
    [] m = "tile"  -> (IF p = sheetPath THEN tilePath ELSE p)
    [] OTHER       -> (IF p = sheetPath THEN cuboidPath ELSE p)

ModeDefaultPath(m) ==
  CASE m = "sheet" -> sheetPath
    [] m = "tile"  -> tilePath
    [] OTHER       -> cuboidPath

InitLab ==
  /\ mode = "sheet"
  /\ imagePath = sheetPath
  /\ frameSize = DefaultFrameSize
  /\ frameIndex = 0
  /\ textures = <<>>
  /\ sheetInfo = Null
  /\ error = Null
  /\ loads = <<[mode |-> "sheet", imagePath |-> sheetPath,
                frameSize |-> DefaultFrameSize, cancelled |-> FALSE]>>

\* <select> onChange: setMode(value); setImagePath(default of value)
SetMode(value) ==
  /\ UNCHANGED <<roomVars, floorVars, call>>
  /\ value # mode
  /\ mode' = value
  /\ imagePath' = ModeEffectPath(value, ModeDefaultPath(value))
  /\ Rerender(value, imagePath', frameSize)
  /\ UNCHANGED <<frameSize, frameIndex>>

\* image path <input> onChange: setImagePath(event.target.value)
SetImagePath(p) ==
  /\ UNCHANGED <<roomVars, floorVars, call>>
  /\ p # imagePath
  /\ imagePath' = p
  /\ Rerender(mode, p, frameSize)
  /\ UNCHANGED <<mode, frameSize, frameIndex>>

\* frame size <input> onChange: setFrameSize(Number(value) || 1)
SetFrameSize(fs) ==
  /\ UNCHANGED <<roomVars, floorVars, call>>
  /\ mode = "sheet"
  /\ fs # frameSize
  /\ frameSize' = fs
  /\ Rerender(mode, imagePath, fs)
  /\ UNCHANGED <<mode, imagePath, frameIndex>>

\* frame index <input> onChange: setFrameIndex(Number(value) || 0)
SetFrameIndex(i) ==
  /\ UNCHANGED <<roomVars, floorVars, call>>
  /\ mode = "sheet"
  /\ i # frameIndex
  /\ frameIndex' = i
  /\ UNCHANGED <<mode, imagePath, frameSize, textures, sheetInfo, error, loads>>

\* "Reset mode defaults" button
ResetDefaults ==
  /\ UNCHANGED <<roomVars, floorVars, call>>
  /\ imagePath' = ModeDefaultPath(mode)
  /\ frameSize' = (IF mode = "sheet" THEN DefaultFrameSize ELSE frameSize)
  /\ frameIndex' = (IF mode = "sheet" THEN 0 ELSE frameIndex)
  /\ Rerender(mode, imagePath', frameSize')
  /\ UNCHANGED mode

RemoveAt(s, i) == [k \in 1..(Len(s) - 1) |-> IF k < i THEN s[k] ELSE s[k + 1]]

\* the catch block: if (!cancelled) setError(`Failed to load ${imagePath}. ...`)
LoadFailed(l, kind) ==
  /\ error' = Some([path |-> l.imagePath, kind |-> kind])
  /\ UNCHANGED <<textures, sheetInfo, frameIndex>>

\* the sheet branch after the await, for a texture of width x height
SheetLoaded(l, width, height) ==
  IF SliceThrows(width, height, l.frameSize)
    THEN LoadFailed(l, "does not evenly divide sheet")
    ELSE LET list == SliceSheet(l.imagePath, width, height, l.frameSize) IN
         /\ textures' = list
         /\ sheetInfo' = Some([cols |-> SheetCols(width, l.frameSize),
                               rows |-> SheetRows(height, l.frameSize),
                               width |-> width, height |-> height])
         /\ frameIndex' = (IF Len(list) # 0 THEN JsRem(frameIndex, 2 * Len(list)) ELSE 0)
         /\ UNCHANGED error

\* the tile / cuboid branch after the await
TileLoaded(l, width, height) ==
  /\ textures' = <<FrameTexture(l.imagePath, 0, 0, width, height)>>
  /\ frameIndex' = 0
  /\ UNCHANGED <<sheetInfo, error>>

\* Assets.load of the i-th closure settles, its effect still being the
\* current one, and the rest of the async body runs
LoadSettles(i, outcome) ==
  /\ UNCHANGED <<roomVars, floorVars, call>>
  /\ i \in 1..Len(loads)
  /\ ~loads[i].cancelled
  /\ (outcome[1] = "image" /\ loads[i].mode = "sheet") =>
       SheetCols(outcome[2], loads[i].frameSize)
         * SheetRows(outcome[3], loads[i].frameSize) <= MaxFrames
  /\ loads' = RemoveAt(loads, i)
  /\ UNCHANGED <<mode, imagePath, frameSize>>
  /\ LET l == loads[i] IN
       IF outcome[1] = "rejected"
         THEN LoadFailed(l, "asset")
         ELSE IF l.mode = "sheet"
           THEN SheetLoaded(l, outcome[2], outcome[3])
           ELSE TileLoaded(l, outcome[2], outcome[3])

\* Assets.load of the i-th closure settles after its effect's cleanup ran:
\* resolved, "if (cancelled) return"; rejected, "if (!cancelled)" skips setError
CancelledLoadSettles(i) ==
  /\ UNCHANGED <<roomVars, floorVars, call>>
  /\ i \in 1..Len(loads)
  /\ loads[i].cancelled
  /\ loads' = RemoveAt(loads, i)
  /\ UNCHANGED <<mode, imagePath, frameSize, textures, sheetInfo, error, frameIndex>>

NextLab ==
  \/ \E value \in Modes : SetMode(value)
  \/ \E p \in TypedPaths : SetImagePath(p)
  \/ \E fs \in FrameSizes : SetFrameSize(fs)
  \/ \E i \in FrameIndexes : SetFrameIndex(i)
  \/ ResetDefaults
  \/ \E i \in 1..MaxLoads, outcome \in LoadOutcomes : LoadSettles(i, outcome)
  \/ \E i \in 1..MaxLoads : CancelledLoadSettles(i)

(***************************************************************************)
(* GameRoom: the grid and the projection.                                  *)
(***************************************************************************)
TILE_PX == 18
SCALE == 4
TILE == TILE_PX * SCALE

\* the literal 16 of both loops of GameRoom's grid
RoomGridSize == 16

\* mutant of ScaledAxis: 0.5 instead of 0.25 on the vertical axis
ScaledAxisHalfY(gridX, gridY, tile) ==
  LET X == Fx(gridX * tile)
      Y == Fx(gridY * tile)
  IN <<Half(X) - Half(Y), Half(X) + Half(Y)>>

\* the body of screenToIsometric for a tile constant tile:
\* X = gridX * tile, Y = gridY * tile, [0.5 * X - 0.5 * Y, 0.25 * X + 0.25 * Y]
ScaledAxis(gridX, gridY, tile) ==
  LET X == Fx(gridX * tile)
      Y == Fx(gridY * tile)
  IN <<Half(X) - Half(Y), Half(Half(X)) + Half(Half(Y))>>

\* screenToIsometric(gridX, gridY), with the module constant TILE
screenToIsometric(gridX, gridY) == ScaledAxis(gridX, gridY, TILE)

\* mutant of RoomGridInner: the loop variables pushed the other way round
RoomGridInnerSwapped(i) == [k \in 1..RoomGridSize |-> [x |-> k - 1, y |-> i]]

\* for (let j = 0; j < 16; j++) items.push({ x: i, y: j }): the items the
\* inner loop pushes for i, in push order (the k-th push has j = k - 1)
RoomGridInner(i) == [k \in 1..RoomGridSize |-> [x |-> i, y |-> k - 1]]

\* for (let i = 0; i < 16; i++) { ...inner loop... }: the items pushed from i on
RECURSIVE RoomGridOuter(_)
RoomGridOuter(i) ==
  IF i < RoomGridSize
    THEN RoomGridInner(i) \o RoomGridOuter(i + 1)
    ELSE <<>>

\* const grid = useMemo(...)
RoomGrid == RoomGridOuter(0)

\* one GrassBlock is mounted per item of the grid (key `${x}-${y}`)
Blocks == {RoomGrid[k] : k \in 1..Len(RoomGrid)}

(***************************************************************************)
(* GameRoom: the GrassBlock animation.                                     *)
(***************************************************************************)
\* timeRef.current += 0.1, in tenths
StepTenths == 1

\* the 16 of 16 * Math.cos(...)
Amplitude == 16

\* 1000 * cos(a / 100) for an angle a in centiradians, by Bhaskara's
\* approximation cos y = (pi^2 - 4 y^2) / (pi^2 + y^2) on [-pi/2, pi/2]
\* after reduction of the angle modulo 2 pi (pi = 3.14)
Cos1000(a) ==
  LET r == a % 628
      h == IF r > 314 THEN 628 - r ELSE r
      neg == h > 157
      y == IF neg THEN 314 - h ELSE h
      c == ((98696 - 4 * y * y) * 1000) \div (98696 + y * y)
  IN IF neg THEN -c ELSE c

\* 16 * Math.cos(timeRef.current - x), in thousandths of a pixel
Wave(t, x) == Amplitude * Cos1000(10 * t - 100 * x)

\* mutant of TickTime: the tick does not look at animateRef
TickTimeAlways(ref, t) == t + StepTenths

\* the body of tick for one block: what it leaves in timeRef.current
TickTime(ref, t) == IF ~ref THEN t ELSE t + StepTenths

\* mutant of TickElevation: the cosine is taken of the phase before the step
TickElevationStale(ref, t, e, x) == IF ~ref THEN e ELSE Wave(t, x)

\* the body of tick for one block: what it leaves in elevation
TickElevation(ref, t, e, x) == IF ~ref THEN e ELSE Wave(t + StepTenths, x)

\* mutant of EffectElevation: the effect forgets setElevation(0)
EffectElevationKept(a, e) == e

\* the [animate] effect of one block: what it leaves in elevation
EffectElevation(a, e) == IF ~a THEN 0 ELSE e

\* mutant of EffectTime: the effect resets the accumulator
EffectTimeReset(a, t) == 0

\* the [animate] effect of one block: what it leaves in timeRef.current
\* (the effect assigns animateRef.current and elevation only)
EffectTime(a, t) == t

\* mutant of GrassSprite: the elevation is added to x as well
GrassSpriteSkewed(b, e) ==
  LET iso == screenToIsometric(b.x, b.y) IN
  [cell |-> <<b.x, b.y>>, texture |-> "pale_green_grass",
   x |-> 1000 * iso[1] + 4 * e, y |-> 1000 * iso[2] + 4 * e]

\* the pixiSprite a GrassBlock of cell b returns while its elevation is e:
\* texture = the grass texture, x = isoX + viewportW / 2,
\* y = isoY + viewportH / 4 + elevation.  x and y are in 1/4000 pixel
\* (quarter pixels times 1000, thousandths times 4), from the viewport
\* point (viewportW / 2, viewportH / 4)
GrassSprite(b, e) ==
  LET iso == screenToIsometric(b.x, b.y) IN
  [cell |-> <<b.x, b.y>>, texture |-> "pale_green_grass",
   x |-> 1000 * iso[1], y |-> 1000 * iso[2] + 4 * e]

Mounted == grass = "ready"

\* what GameRoom draws: the sprite of every mounted GrassBlock
RoomSprites == [b \in DOMAIN elevation |-> GrassSprite(b, elevation[b])]

InitRoom ==
  /\ animate = TRUE
  /\ grass = "loading"
  /\ animateRef = <<>>
  /\ timeRef = <<>>
  /\ elevation = <<>>
  /\ effectDue = FALSE

\* the load effect's async body ends: setTextures mounts the GrassBlocks
\* (useRef(0), useRef(animate), useState(0)), or setError
RoomLoadSettles(ok) ==
  /\ UNCHANGED <<labVars, floorVars, call>>
  /\ grass = "loading"
  /\ grass' = (IF ok THEN "ready" ELSE "failed")
  /\ animateRef' = (IF ok THEN [b \in Blocks |-> animate] ELSE animateRef)
  /\ timeRef' = (IF ok THEN [b \in Blocks |-> 0] ELSE timeRef)
  /\ elevation' = (IF ok THEN [b \in Blocks |-> 0] ELSE elevation)
  /\ effectDue' = ok
  /\ UNCHANGED animate

\* React runs the pending [animate] effects of every block in one pass
RunEffects ==
  /\ UNCHANGED <<labVars, floorVars, call>>
  /\ effectDue
  /\ animateRef' = [b \in Blocks |-> animate]
  /\ timeRef' = [b \in Blocks |-> EffectTime(animate, timeRef[b])]
  /\ elevation' = [b \in Blocks |-> EffectElevation(animate, elevation[b])]
  /\ effectDue' = FALSE
  /\ UNCHANGED <<animate, grass>>

\* the button's onClick: setAnimate(a => !a).  React flushes the effects
\* still pending from the last commit before it renders again.
Toggle ==
  /\ UNCHANGED <<labVars, floorVars, call>>
  /\ animate' = ~animate
  /\ effectDue' = Mounted
  /\ animateRef' = (IF effectDue THEN [b \in Blocks |-> animate] ELSE animateRef)
  /\ timeRef' = (IF effectDue
                   THEN [b \in Blocks |-> EffectTime(animate, timeRef[b])]
                   ELSE timeRef)
  /\ elevation' = (IF effectDue
                     THEN [b \in Blocks |-> EffectElevation(animate, elevation[b])]
                     ELSE elevation)
  /\ UNCHANGED grass

\* one turn of the Pixi ticker: it calls the tick of every mounted block
Tick ==
  /\ UNCHANGED <<labVars, floorVars, call>>
  /\ Mounted
  /\ {b \in Blocks : TickTime(animateRef[b], timeRef[b]) > MaxTicks * StepTenths} = {}
  /\ timeRef' = [b \in Blocks |-> TickTime(animateRef[b], timeRef[b])]
  /\ elevation' = [b \in Blocks |->
                     TickElevation(animateRef[b], timeRef[b], elevation[b], b.x)]
  /\ UNCHANGED <<animate, grass, animateRef, effectDue>>

NextRoom ==
  \/ \E ok \in BOOLEAN : RoomLoadSettles(ok)
  \/ RunEffects
  \/ Toggle
  \/ Tick

(***************************************************************************)
(* Leaving a page.  An unmount runs the cleanup of the load effect, which  *)
(* sets cancelled = true in the closure of the load still in flight, and   *)
(* React drops the component's state: the variables go back to the values  *)
(* a mount starts from, and nothing is drawn.                              *)
(***************************************************************************)
LabMounted == mode \in Modes

\* FloorLab unmounts ("unmounted" marks the component as gone)
LabUnmount ==
  /\ UNCHANGED <<roomVars, floorVars, call>>
  /\ LabMounted
  /\ loads' = CancelAll(loads)
  /\ mode' = "unmounted"
  /\ imagePath' = sheetPath
  /\ frameSize' = DefaultFrameSize
  /\ frameIndex' = 0
  /\ textures' = <<>>
  /\ sheetInfo' = Null
  /\ error' = Null

RoomOnPage == grass \in {"loading", "ready", "failed"}

\* GamePage unmounts, with its GameRoom and every GrassBlock: "cancelled"
\* says that the load was still in flight when the cleanup ran
RoomUnmount ==
  /\ UNCHANGED <<labVars, floorVars, call>>
  /\ RoomOnPage
  /\ grass' = (IF grass = "loading" THEN "cancelled" ELSE "unmounted")
  /\ animateRef' = <<>>
  /\ timeRef' = <<>>
  /\ elevation' = <<>>
  /\ effectDue' = FALSE
  /\ UNCHANGED animate

\* GameRoom's load settles after the cleanup: resolved, "if (cancelled)
\* return"; rejected, "if (!cancelled)" skips setError
CancelledRoomLoadSettles ==
  /\ UNCHANGED <<labVars, floorVars, call>>
  /\ grass = "cancelled"
  /\ grass' = "unmounted"
  /\ UNCHANGED <<animate, animateRef, timeRef, elevation, effectDue>>

(***************************************************************************)
(* FloorOnly and BlocksFloor: a load effect with an empty dependency list, *)
(* a fixed ROWS x COLS grid (the constants have the same values in both    *)
(* files).                                                                 *)
(***************************************************************************)
TILE_W == 128
TILE_H == 64
ROWS == 6
COLS == 8

floorPath  == "/assets/room/floor-128.png"
blockPath  == "/assets/room/floorblock.png"
shadowPath == "/assets/room/shadow-64x32.png"

\* the grid memo of FloorOnly and of BlocksFloor: the loops of FloorLab's
\* grid, with the constants ROWS and COLS
FloorGrid == LabGrid(ROWS, COLS)

InitFloorOnly ==
  floorOnly = [mounted |-> TRUE, texture |-> Null, error |-> Null,
               inFlight |-> TRUE, cancelled |-> FALSE]

\* FloorOnly's Assets.load settles and the rest of the async body runs:
\* resolved, "if (cancelled) return; setTexture(tex)"; rejected,
\* "if (!cancelled) setError(...)"
FloorOnlyLoadSettles(ok) ==
  /\ UNCHANGED <<labVars, roomVars, blocksFloor, call>>
  /\ floorOnly.inFlight
  /\ floorOnly' =
       IF floorOnly.cancelled
         THEN [floorOnly EXCEPT !.inFlight = FALSE]
         ELSE IF ok
           THEN [floorOnly EXCEPT !.inFlight = FALSE, !.texture = Some(floorPath)]
           ELSE [floorOnly EXCEPT !.inFlight = FALSE, !.error = Some(floorPath)]

\* FloorOnly unmounts
FloorOnlyUnmount ==
  /\ UNCHANGED <<labVars, roomVars, blocksFloor, call>>
  /\ floorOnly.mounted
  /\ floorOnly' = [floorOnly EXCEPT !.mounted = FALSE, !.texture = Null,
                                    !.error = Null, !.cancelled = TRUE]

\* FloorOnly's render: nothing without the texture, else a sprite per cell at
\* ((col - row) * (TILE_W / 2), (col + row) * (TILE_H / 2)) from the centre
FloorOnlySprites ==
  LabSprites(floorOnly.texture, FloorGrid, Fx(TILE_W), Fx(TILE_H))

\* stage: the await the async body of BlocksFloor is at ("block", then
\* "shadow"), or "done"
InitBlocksFloor ==
  blocksFloor = [mounted |-> TRUE, blockTex |-> Null, shadowTex |-> Null,
                 error |-> Null, stage |-> "block", cancelled |-> FALSE]

\* the load of the block texture settles: resolved, "if (cancelled) return;
\* setBlockTex(tex)" and the shadow load starts; rejected, the outer catch,
\* "if (!cancelled) setError(...)"
BlockLoadSettles(ok) ==
  /\ UNCHANGED <<labVars, roomVars, floorOnly, call>>
  /\ blocksFloor.stage = "block"
  /\ blocksFloor' =
       IF ok
         THEN IF blocksFloor.cancelled
                THEN [blocksFloor EXCEPT !.stage = "done"]
                ELSE [blocksFloor EXCEPT !.stage = "shadow", !.blockTex = Some(blockPath)]
         ELSE IF ~blocksFloor.cancelled
                THEN [blocksFloor EXCEPT !.stage = "done", !.error = Some(blockPath)]
                ELSE [blocksFloor EXCEPT !.stage = "done"]

\* the load of the optional shadow settles: resolved, "if (!cancelled)
\* setShadowTex(s)"; rejected, the inner catch ignores it
ShadowLoadSettles(ok) ==
  /\ UNCHANGED <<labVars, roomVars, floorOnly, call>>
  /\ blocksFloor.stage = "shadow"
  /\ blocksFloor' =
       IF ok /\ ~blocksFloor.cancelled
         THEN [blocksFloor EXCEPT !.stage = "done", !.shadowTex = Some(shadowPath)]
         ELSE [blocksFloor EXCEPT !.stage = "done"]

\* BlocksFloor unmounts
BlocksFloorUnmount ==
  /\ UNCHANGED <<labVars, roomVars, floorOnly, call>>
  /\ blocksFloor.mounted
  /\ blocksFloor' = [blocksFloor EXCEPT !.mounted = FALSE, !.blockTex = Null,
                                        !.shadowTex = Null, !.error = Null,
                                        !.cancelled = TRUE]

\* BlocksFloor's render: nothing without the block texture, else a block
\* per cell at iso(col, row, centerX, centerY), from the centre
BlocksFloorSprites ==
  LabSprites(blocksFloor.blockTex, FloorGrid, Fx(TILE_W), Fx(TILE_H))

(***************************************************************************)
(* The load effects of the four components.  The components are separate   *)
(* and share no state; a behaviour follows one of them at a time: a        *)
(* component takes a step only while the others are as constructed.        *)
(***************************************************************************)
OnlyLab == InitRoom /\ InitFloorOnly /\ InitBlocksFloor

OnlyRoom == InitLab /\ InitFloorOnly /\ InitBlocksFloor

OnlyFloorOnly == InitLab /\ InitRoom /\ InitBlocksFloor

OnlyBlocksFloor == InitLab /\ InitRoom /\ InitFloorOnly

NextLoads ==
  \/ OnlyLab /\ LabMounted /\ NextLab
  \/ OnlyLab /\ LabUnmount
  \/ OnlyLab /\ ~LabMounted /\ \E i \in 1..MaxLoads : CancelledLoadSettles(i)
  \/ OnlyRoom /\ \E ok \in BOOLEAN : RoomLoadSettles(ok)
  \/ OnlyRoom /\ RunEffects
  \/ OnlyRoom /\ RoomUnmount
  \/ OnlyRoom /\ CancelledRoomLoadSettles
  \/ OnlyFloorOnly /\ \E ok \in BOOLEAN : FloorOnlyLoadSettles(ok)
  \/ OnlyFloorOnly /\ FloorOnlyUnmount
  \/ OnlyBlocksFloor /\ \E ok \in BOOLEAN : BlockLoadSettles(ok)
  \/ OnlyBlocksFloor /\ \E ok \in BOOLEAN : ShadowLoadSettles(ok)
  \/ OnlyBlocksFloor /\ BlocksFloorUnmount

(***************************************************************************)
(* Calls of the pure functions, on inputs drawn from bounded sets.         *)
(***************************************************************************)
Coords == (0..MaxCoord) \cup {15}

TileDims == ((-MaxTile)..MaxTile) \cup {36, 64, 72, 128}

Scales == 1..MaxScale

GridDims == (0..MaxGrid) \cup {16}

\* no call made yet; each behaviour makes one call
InitCall == call = [op |-> "none"]

\* FloorLab draws a tile: isoPosition(col, row, tileWidthPx, tileHeightPx)
CallIsoPosition ==
  /\ call.op = "none"
  /\ \E col \in Coords, row \in Coords, tw \in TileDims, th \in TileDims :
       call' = [op |-> "isoPosition", col |-> col, row |-> row, tw |-> tw, th |-> th,
                out |-> isoPosition(col, row, Fx(tw), Fx(th))]
  /\ UNCHANGED <<labVars, roomVars, floorVars>>

\* FloorLab draws a tile in sheet mode, for a frame size and a display scale
CallSheetPosition ==
  /\ call.op = "none"
  /\ \E col \in Coords, row \in Coords, fs \in FrameSizes, scale \in Scales :
       call' = [op |-> "sheetPosition", col |-> col, row |-> row,
                frameSize |-> fs, sheetScale |-> scale,
                out |-> isoPosition(col, row,
                                    tileWidthPx("sheet", fs, scale, 128),
                                    tileHeightPx("sheet", fs, scale, 64))]
  /\ UNCHANGED <<labVars, roomVars, floorVars>>

\* a GrassBlock projects its cell: screenToIsometric(x, y)
CallScreenToIsometric ==
  /\ call.op = "none"
  /\ \E gridX \in Coords, gridY \in Coords :
       call' = [op |-> "screenToIsometric", gridX |-> gridX, gridY |-> gridY,
                out |-> screenToIsometric(gridX, gridY)]
  /\ UNCHANGED <<labVars, roomVars, floorVars>>

\* FloorLab enumerates its grid
CallLabGrid ==
  /\ call.op = "none"
  /\ \E nrows \in GridDims, ncols \in GridDims :
       call' = [op |-> "labGrid", rows |-> nrows, cols |-> ncols,
                out |-> LabGrid(nrows, ncols)]
  /\ UNCHANGED <<labVars, roomVars, floorVars>>

\* FloorLab renders its grid in tile mode, with its texture loaded or not
CallLabDraw ==
  /\ call.op = "none"
  /\ \E nrows \in GridDims, ncols \in GridDims, loaded \in BOOLEAN :
       LET texs == IF loaded THEN <<FrameTexture(tilePath, 0, 0, 128, 64)>> ELSE <<>> IN
       call' = [op |-> "labDraw", rows |-> nrows, cols |-> ncols, loaded |-> loaded,
                out |-> LabSprites(activeTexture("tile", texs, 0),
                                   LabGrid(nrows, ncols),
                                   tileWidthPx("tile", DefaultFrameSize, DefaultSheetScale, 128),
                                   tileHeightPx("tile", DefaultFrameSize, DefaultSheetScale, 64))]
  /\ UNCHANGED <<labVars, roomVars, floorVars>>

\* GameRoom enumerates its grid
CallRoomGrid ==
  /\ call.op = "none"
  /\ call' = [op |-> "roomGrid", out |-> RoomGrid]
  /\ UNCHANGED <<labVars, roomVars, floorVars>>

NextPure ==
  \/ CallIsoPosition
  \/ CallSheetPosition
  \/ CallScreenToIsometric
  \/ CallLabGrid
  \/ CallLabDraw
  \/ CallRoomGrid

(***************************************************************************)
(* Specifications.                                                         *)
(***************************************************************************)

Init == InitLab /\ InitRoom /\ InitFloorOnly /\ InitBlocksFloor /\ InitCall

\* FloorLab: configuration changes and asset loads
SpecLab == Init /\ [][NextLab]_vars

\* GameRoom: the load, the animate toggle, the ticker
SpecRoom == Init /\ [][NextRoom]_vars

\* the projections and the grid enumerators, called on bounded inputs
SpecPure == Init /\ [][NextPure]_vars

\* GameRoom, with React running every pending effect
SpecRoomFair == SpecRoom /\ WF_vars(RunEffects)

\* the load effects of FloorLab, GameRoom, FloorOnly and BlocksFloor, with
\* the unmount of each
SpecLoads == Init /\ [][NextLoads]_vars

(***************************************************************************)
(* The sheet slicer (SpecLab).                                             *)
(***************************************************************************)
\* a sheet has been sliced: the load effect stored its frames and its info
Sliced == sheetInfo # Null

\* C1: slicing fails, and no frame is produced, whenever the frame size does
\* not divide the image width or does not divide the image height: a sheet
\* that was sliced has both dimensions divisible by the frame size
C1_NonDivisibleFails ==
  Sliced => /\ sheetInfo[1].width % frameSize = 0
            /\ sheetInfo[1].height % frameSize = 0

\* C2: a sliced sheet has exactly (width / frameSize) * (height / frameSize)
\* frames, in row-major order: frame row * cols + col lies at
\* (col * frameSize, row * frameSize) and is frameSize x frameSize
C2_ExactRowMajorFrames ==
  Sliced =>
    LET info == sheetInfo[1] IN
    /\ Len(textures) * frameSize * frameSize = info.width * info.height
    /\ \A row \in 0..(info.rows - 1), col \in 0..(info.cols - 1) :
         LET i == row * info.cols + col IN
         /\ i + 1 \in 1..Len(textures)
         /\ textures[i + 1].x = col * frameSize
         /\ textures[i + 1].y = row * frameSize
         /\ textures[i + 1].w = frameSize
         /\ textures[i + 1].h = frameSize

\* C3: no partial frame is ever produced: every frame of a sliced sheet lies
\* entirely inside the image
C3_FramesInsideImage ==
  Sliced =>
    \A k \in 1..Len(textures) :
      /\ textures[k].x >= 0
      /\ textures[k].y >= 0
      /\ textures[k].x + frameSize <= sheetInfo[1].width
      /\ textures[k].y + frameSize <= sheetInfo[1].height
      /\ textures[k].w = frameSize
      /\ textures[k].h = frameSize

\* C3 witness: the 180x100 sheet, which 18 does not divide, sliced into
\* 5 full rows of 10 frames, the last frame ending at y = 90 + 18
C3_Witness ==
  /\ Sliced
  /\ frameSize = 18
  /\ sheetInfo[1].width = 180
  /\ sheetInfo[1].height = 100
  /\ Len(textures) = 50
  /\ textures[50].x = 162
  /\ textures[50].y = 72

(***************************************************************************)
(* The animation phase (SpecRoom, SpecRoomFair).                           *)
(***************************************************************************)
\* a step on which the blocks' effect applies an enable or a disable
EnableOrDisable == Mounted /\ animateRef' # animateRef

\* every mounted block shows the baseline elevation
AllElevationsZero == \A b \in DOMAIN elevation : elevation[b] = 0

\* a step of the ticker: the only step that leaves the flag, the load state,
\* the refs and the pending effects alone
TickStep == UNCHANGED <<animate, grass, animateRef, effectDue>>

\* C4 (as stated): every enable and every disable transition resets the
\* accumulator of every block to 0
C4_ResetOnToggle ==
  [][EnableOrDisable => \A b \in Blocks : timeRef'[b] = 0]_vars

\* C4 (amended): no enable and no disable transition changes an accumulator:
\* the phase a block resumes from is the one it had before the disable
C4_PhaseKeptAcrossToggle ==
  [][(Mounted /\ (animateRef' # animateRef \/ animate' # animate))
       => timeRef' = timeRef]_vars

\* C4 witness: re-enabled after a run and a disable, no tick yet: the
\* elevation is still the 0 of the disable, the phase is the one of the run
C4_Witness ==
  /\ Mounted
  /\ animate
  /\ ~effectDue
  /\ \E b \in Blocks : animateRef[b] /\ timeRef[b] = 3 * StepTenths /\ elevation[b] = 0

C6_DisableResetsElevation ==
  /\ [](Mounted /\ ~animate /\ ~effectDue => AllElevationsZero)
  /\ (Mounted /\ ~animate) ~> (animate \/ AllElevationsZero)
  /\ [][(Mounted /\ ~animate /\ ~animate' /\ ~effectDue) => AllElevationsZero']_vars

\* C6 witness: disabled after a run of 2 ticks, effect applied: the accumulator
\* kept its value and every elevation is back at 0
C6_Witness ==
  /\ Mounted
  /\ ~animate
  /\ ~effectDue
  /\ \A b \in Blocks : ~animateRef[b] /\ timeRef[b] = 2 * StepTenths
  /\ AllElevationsZero

(***************************************************************************)
(* The projections (SpecPure).                                             *)
(***************************************************************************)
\* C7: the direct form returns x = (col - row) * tileWidth / 2 and
\* y = (col + row) * tileHeight / 2, whatever the tile dimensions (nothing
\* is clamped) and relative to the origin (nothing is added)
C7_DirectForm ==
  call.op = "isoPosition" =>
    /\ 2 * call.out[1] = Fx((call.col - call.row) * call.tw)
    /\ 2 * call.out[2] = Fx((call.col + call.row) * call.th)

\* C7 witness: cell (col 3, row 1) of 128x64 tiles is at (128, 128)
C7_Witness ==
  /\ call.op = "isoPosition"
  /\ call.col = 3 /\ call.row = 1 /\ call.tw = 128 /\ call.th = 64
  /\ call.out = <<Fx(128), Fx(128)>>

\* C8: with tileWidth = T and tileHeight = T / 2 the direct form and the
\* scaled-axis form of tile constant T agree on every cell; GameRoom's
\* screenToIsometric (TILE = 72) agrees with FloorLab's sheet mode at
\* frame size 18 and scale 4
C8_FormsAgree ==
  /\ call.op = "sheetPosition" =>
       call.out = ScaledAxis(call.col, call.row, call.frameSize * call.sheetScale)
  /\ call.op = "screenToIsometric" =>
       call.out = isoPosition(call.gridX, call.gridY,
                              tileWidthPx("sheet", DefaultFrameSize, DefaultSheetScale, 128),
                              tileHeightPx("sheet", DefaultFrameSize, DefaultSheetScale, 64))

\* C8 witness: screenToIsometric(3, 1) = (72, 72)
C8_Witness ==
  /\ call.op = "screenToIsometric"
  /\ call.gridX = 3 /\ call.gridY = 1
  /\ call.out = <<Fx(72), Fx(72)>>

\* C9: for non-zero tile dimensions no other cell is projected to the point
\* a cell is projected to, by either projection
C9_Injective ==
  /\ (call.op = "isoPosition" /\ call.tw # 0 /\ call.th # 0) =>
       \A c \in Coords, r \in Coords :
         <<c, r>> # <<call.col, call.row>>
           => isoPosition(c, r, Fx(call.tw), Fx(call.th)) # call.out
  /\ call.op = "screenToIsometric" =>
       \A gx \in Coords, gy \in Coords :
         <<gx, gy>> # <<call.gridX, call.gridY>>
           => screenToIsometric(gx, gy) # call.out

\* C9 witness: cell (col 1, row 2) projected with a 3 x 1 tile
C9_Witness ==
  /\ call.op = "isoPosition"
  /\ call.col = 1 /\ call.row = 2 /\ call.tw = 3 /\ call.th = 1
  /\ call.out = <<-6, 6>>

(***************************************************************************)
(* The grid enumerators (SpecPure).  A GameRoom item {x, y} is the cell of *)
(* column x and row y: x is the first argument of screenToIsometric, the   *)
(* axis isoPosition calls col, and the column of the wave cos(time - x).   *)
(***************************************************************************)
\* the cells of an nrows x ncols grid, each exactly once
EachCellOnce(cells, nrows, ncols) ==
  /\ Len(cells) = nrows * ncols
  /\ \A r \in 0..(nrows - 1), c \in 0..(ncols - 1) :
       Cardinality({k \in 1..Len(cells) : cells[k] = [row |-> r, col |-> c]}) = 1

\* row-major: all columns of row 0, then row 1, ...
RowMajor(cells, ncols) ==
  \A k \in 1..Len(cells) :
    cells[k] = [row |-> (k - 1) \div ncols, col |-> (k - 1) % ncols]

\* column-major: all rows of column 0, then column 1, ...
ColumnMajor(cells, nrows) ==
  \A k \in 1..Len(cells) :
    cells[k] = [row |-> (k - 1) % nrows, col |-> (k - 1) \div nrows]

\* GameRoom's items as cells
RoomCells(items) == [k \in 1..Len(items) |-> [row |-> items[k].y, col |-> items[k].x]]

\* C10 (as stated): both enumerators yield every cell exactly once, in
\* row-major order
C10_RowMajorEverywhere ==
  /\ call.op = "labGrid" =>
       EachCellOnce(call.out, call.rows, call.cols) /\ RowMajor(call.out, call.cols)
  /\ call.op = "roomGrid" =>
       /\ EachCellOnce(RoomCells(call.out), RoomGridSize, RoomGridSize)
       /\ RowMajor(RoomCells(call.out), RoomGridSize)

\* C10 (amended): both enumerators yield every cell exactly once; FloorLab's
\* order is row-major, GameRoom's is column-major, from (0,0) to (15,15)
C10_GridOrders ==
  /\ call.op = "labGrid" =>
       EachCellOnce(call.out, call.rows, call.cols) /\ RowMajor(call.out, call.cols)
  /\ call.op = "roomGrid" =>
       /\ EachCellOnce(RoomCells(call.out), RoomGridSize, RoomGridSize)
       /\ ColumnMajor(RoomCells(call.out), RoomGridSize)
       /\ call.out[1] = [x |-> 0, y |-> 0]
       /\ call.out[Len(call.out)] = [x |-> RoomGridSize - 1, y |-> RoomGridSize - 1]

\* C10 witness: GameRoom's 256 items, the second one being column 0, row 1
C10_Witness ==
  /\ call.op = "roomGrid"
  /\ Len(call.out) = 256
  /\ call.out[2] = [x |-> 0, y |-> 1]
  /\ call.out[17] = [x |-> 1, y |-> 0]

C12_OnlyVerticalOffsetMoves ==
  [][Mounted =>
       /\ grass' = grass
       /\ DOMAIN elevation' = DOMAIN elevation
       /\ \A b \in Blocks :
            LET before == GrassSprite(b, elevation[b])
                after == GrassSprite(b, elevation'[b])
            IN /\ after.cell = before.cell
               /\ after.texture = before.texture
               /\ after.x = before.x
               /\ after.x = 1000 * screenToIsometric(b.x, b.y)[1]
               /\ after.y - 4 * elevation'[b] = before.y - 4 * elevation[b]
               /\ after.y - 4 * elevation'[b] = 1000 * screenToIsometric(b.x, b.y)[2]]_vars

\* C12 witness: after 4 ticks the block of cell (1, 2) is drawn off its
\* baseline, 16 * cos(0.4 - 1) lower, at its projected x = -36 px
C12_Witness ==
  /\ Mounted
  /\ timeRef[[x |-> 1, y |-> 2]] = 4 * StepTenths
  /\ elevation[[x |-> 1, y |-> 2]] = Wave(4 * StepTenths, 1)
  /\ elevation[[x |-> 1, y |-> 2]] > 13000
  /\ GrassSprite([x |-> 1, y |-> 2], elevation[[x |-> 1, y |-> 2]]).x = 1000 * Fx(-36)
  /\ GrassSprite([x |-> 1, y |-> 2], elevation[[x |-> 1, y |-> 2]]).y
       = 1000 * Fx(54) + 4 * Wave(4 * StepTenths, 1)

(***************************************************************************)
(* The load effects (SpecLoads, SpecLab).                                  *)
(***************************************************************************)
\* C13: whenever an error message is set (the asset load failed, or the
\* slicer threw), the texture list is empty and no tile is drawn, in
\* FloorLab, in GameRoom and in the two fixed floors
C13_ErrorWithholdsFrames ==
  /\ error # Null =>
       /\ textures = <<>>
       /\ sheetInfo = Null
       /\ LabDrawn(mode, frameSize, frameIndex, textures) = <<>>
  /\ grass = "failed" => RoomSprites = <<>>
  /\ floorOnly.error # Null => floorOnly.texture = Null /\ FloorOnlySprites = <<>>
  /\ blocksFloor.error # Null =>
       blocksFloor.blockTex = Null /\ BlocksFloorSprites = <<>>

\* C13 witness: the slicer threw on the frame size 18, which exceeds a
\* dimension of the image of the typed path: the message is set, no frame
\* is stored
C13_Witness ==
  /\ LabMounted
  /\ frameSize = DefaultFrameSize
  /\ imagePath = "/typed.png"
  /\ error # Null
  /\ error[1].kind = "does not evenly divide sheet"
  /\ textures = <<>>
  /\ loads = <<>>

\* the load closures whose effect is still the current one
LiveLoads(ls) == {i \in 1..Len(ls) : ~ls[i].cancelled}

\* a step that leaves the load effect's dependency list as it is
ConfigKept == <<mode, imagePath, frameSize>>' = <<mode, imagePath, frameSize>>

\* C14: a failure is not retried: while an error is set no load of the
\* current configuration is in flight, and every step that keeps the image
\* path, the frame size and the mode keeps the error, starts no load and
\* leaves the frame list empty
C14_NoAutomaticRetry ==
  /\ [](error # Null => LiveLoads(loads) = {})
  /\ [][(error # Null /\ ConfigKept) =>
          /\ error' = error
          /\ textures' = <<>>
          /\ LiveLoads(loads') = {}
          /\ Len(loads') <= Len(loads)]_vars

\* C14 witness: the load of a typed path was rejected, and a frame index
\* typed afterwards (or before) has left the failure as it is: nothing is in
\* flight, no frame is stored
C14_Witness ==
  /\ error # Null
  /\ error[1].kind = "asset"
  /\ error[1].path = "/typed.png"
  /\ imagePath = "/typed.png"
  /\ frameIndex = 2
  /\ loads = <<>>
  /\ textures = <<>>

\* a step in which a load of FloorLab settles after its cleanup ran
SupersededLoadSettles ==
  \E i \in 1..Len(loads) : loads[i].cancelled /\ loads' = RemoveAt(loads, i)

\* what FloorLab holds comes from its current configuration: the load in
\* flight, the frames, the sheet info and the error
FromCurrentConfig ==
  /\ Cardinality(LiveLoads(loads)) <= 1
  /\ \A i \in LiveLoads(loads) :
       /\ loads[i].mode = mode
       /\ loads[i].imagePath = imagePath
       /\ loads[i].frameSize = frameSize
  /\ \A k \in 1..Len(textures) : textures[k].source = imagePath
  /\ Sliced =>
       /\ mode = "sheet"
       /\ Len(textures) = sheetInfo[1].cols * sheetInfo[1].rows
       /\ \A k \in 1..Len(textures) : textures[k].w = frameSize /\ textures[k].h = frameSize
  /\ (textures # <<>> /\ ~Sliced) => mode \in {"tile", "cuboid"} /\ Len(textures) = 1
  /\ error # Null => error[1].path = imagePath

\* a component that has unmounted holds no texture and no error
UnmountedHoldNothing ==
  /\ ~LabMounted => textures = <<>> /\ sheetInfo = Null /\ error = Null /\ frameIndex = 0
  /\ ~RoomOnPage => RoomSprites = <<>> /\ animateRef = <<>> /\ timeRef = <<>>
  /\ ~floorOnly.mounted => floorOnly.texture = Null /\ floorOnly.error = Null
  /\ ~blocksFloor.mounted =>
       /\ blocksFloor.blockTex = Null
       /\ blocksFloor.shadowTex = Null
       /\ blocksFloor.error = Null

\* C15: a load whose cleanup has run (its configuration was superseded, or
\* its component unmounted) writes nothing when it settles: the step
\* changes no texture, sheet info, frame index or error; and so what
\* FloorLab shows always comes from its current configuration, and an
\* unmounted component holds nothing
C15_CancelledLoadWritesNothing ==
  /\ [](FromCurrentConfig /\ UnmountedHoldNothing)
  /\ [][/\ SupersededLoadSettles =>
            UNCHANGED <<mode, imagePath, frameSize, frameIndex, textures, sheetInfo, error>>
        /\ grass = "cancelled" =>
            UNCHANGED <<animate, animateRef, timeRef, elevation, effectDue>>
        /\ (floorOnly.cancelled /\ floorOnly.inFlight) =>
            (floorOnly'.texture = floorOnly.texture /\ floorOnly'.error = floorOnly.error)
        /\ (blocksFloor.cancelled /\ blocksFloor.stage # "done") =>
            (/\ blocksFloor'.blockTex = blocksFloor.blockTex
             /\ blocksFloor'.shadowTex = blocksFloor.shadowTex
             /\ blocksFloor'.error = blocksFloor.error)]_vars

\* C15 witness: the image path was typed while the load of an earlier
\* configuration could still be in flight; every load has settled and the
\* two frames stored are those of the typed path, cut at the current size
C15_Witness ==
  /\ LabMounted
  /\ mode = "sheet"
  /\ imagePath = "/typed.png"
  /\ frameSize = 1
  /\ loads = <<>>
  /\ Len(textures) = 2
  /\ textures[2] = FrameTexture("/typed.png", 1, 0, 1, 1)

(***************************************************************************)
(* The active frame (SpecLab).                                             *)
(***************************************************************************)
\* C16: the frame selected for display is always an element of the current
\* frame sequence: whatever index was typed and whatever was re-sliced, no
\* texture is selected while the sequence is empty, and while it is not,
\* the index used is one of 0 .. frames.length - 1 and the active texture is
\* the frame at that index
C16_ActiveFrameValid ==
  LET active == activeTexture(mode, textures, frameIndex) IN
  /\ textures = <<>> => active = Null
  /\ textures # <<>> =>
       /\ active # Null
       /\ \E k \in 1..Len(textures) : active[1] = textures[k]
       /\ mode = "sheet" =>
            \E k \in 0..(Len(textures) - 1) :
              /\ ActiveIndex(frameIndex, Len(textures)) = 2 * k
              /\ active[1] = textures[k + 1]

(***************************************************************************)
(* One phase for all tiles (SpecRoom).                                     *)
(***************************************************************************)
\* the accumulator of the block of cell (0, 0)
FirstPhase == timeRef[[x |-> 0, y |-> 0]]

====
